---- MODULE Spec2Model ----
(***************************************************************************)
(* Translatable-content registry, value objects and mapping containers     *)
(* (core/domain/translation_domain.py) and payload schema validator        *)
(* (core/controllers/payload_validator.py).                                *)
(*                                                                         *)
(* Spec        : a translatable object (with an optional nested object)    *)
(*               and an EntityTranslations record, on which                *)
(*               get_translatable_fields and                               *)
(*               get_all_content_which_needs_translations are called.      *)
(* SpecPayload : a handler schema on which payload_validator.validate is   *)
(*               called with argument mappings, directly and through the   *)
(*               handler layer.                                            *)
(* SpecValidate: a Voiceover or a MachineTranslation on which validate is  *)
(*               called.                                                   *)
(* SpecMappings: a WrittenTranslations and a RecordedVoiceovers container  *)
(*               on which content ids are added and deleted, voiceovers    *)
(*               stripped and validate called.                             *)
(* SpecTranslations: a WrittenTranslations container whose translations    *)
(*               are stored, marked as needing update and read.            *)
(* SpecDicts   : a TranslatableContent or TranslatedContent taken through  *)
(*               to_dict and from_dict.                                    *)
(* SpecObjects : two translatable objects on both of which                 *)
(*               get_translatable_fields is called, in any order.          *)
(***************************************************************************)
EXTENDS Integers, Sequences, FiniteSets, TLC

VARIABLES
    fields,          \* object id -> the registrations its _register_all_translatable_fields makes, in order
    implemented,     \* object id -> its class overrides _register_all_translatable_fields
    contents,        \* object id -> its _translatable_contents attribute (defaultdict(list))
    translations,    \* entityTranslations.translations: content hash -> TranslatedContent
    lastCall,        \* the method called last (on the parent object unless it says child)
    gtfOutcome,      \* how the last get_translatable_fields call ended: "return" or the exception raised
    mapping,         \* the mapping the last get_translatable_fields call returned
    gacOutcome,      \* how the last get_all_content_which_needs_translations call ended
    needing,         \* the list the last get_all_content_which_needs_translations call returned
    returnedBefore,  \* get_translatable_fields had been called before the last get_all_content_... call
    schema,          \* handler_args_schema: argument name -> its schema entry (mutated in place by validate)
    handler_args,    \* the argument mapping of the last validate call
    strict,          \* strict_validation of the last validate call
    pvOutcome,       \* how the last validate call ended: "return" or the exception raised
    errors,          \* the error list the last validate call returned
    normalized,      \* the argument names the last validate call passed to normalize_against_schema
    response,        \* the status the handler layer answered the last request with
    subject,         \* the Voiceover or MachineTranslation validate was called on last
    valOutcome,      \* how that validate call ended: returned, or the exception raised and its message
    translations_mapping,  \* WrittenTranslations.translations_mapping: content id -> language -> record
    voiceovers_mapping,    \* RecordedVoiceovers.voiceovers_mapping: content id -> language -> record
    mapCall,         \* the last operation called on one of the two containers, with its argument
    mapOutcome,      \* how that operation ended
    added,           \* per container, the content ids added and not deleted since
    original,        \* the TranslatableContent or TranslatedContent that is converted
    as_dict,         \* the dict its to_dict returned
    rebuilt          \* how from_dict on that dict ended, and the object it returned

regVars == <<fields, implemented, contents, translations, lastCall, gtfOutcome,
             mapping, gacOutcome, needing, returnedBefore>>
pvVars == <<schema, handler_args, strict, pvOutcome, errors, normalized, response>>
valVars == <<subject, valOutcome>>
mapVars == <<translations_mapping, voiceovers_mapping, mapCall, mapOutcome, added>>
dictVars == <<original, as_dict, rebuilt>>
vars == <<fields, implemented, contents, translations, lastCall, gtfOutcome,
          mapping, gacOutcome, needing, returnedBefore,
          schema, handler_args, strict, pvOutcome, errors, normalized, response,
          subject, valOutcome,
          translations_mapping, voiceovers_mapping, mapCall, mapOutcome, added,
          original, as_dict, rebuilt>>

\* The variables the calls on a translatable object leave alone.
notRegVars == <<pvVars, valVars, mapVars, dictVars>>
\* The variables payload_validator.validate and the handler layer leave alone.
notPvVars == <<regVars, valVars, mapVars, dictVars>>
\* The variables the validate methods of the value objects leave alone.
notValVars == <<regVars, pvVars, mapVars, dictVars>>
\* The variables the operations of the two mapping containers leave alone.
notMapVars == <<regVars, pvVars, valVars, dictVars>>
\* The variables the dict conversions leave alone.
notDictVars == <<regVars, pvVars, valVars, mapVars>>

(***************************************************************************)
(* Bounds                                                                  *)
(***************************************************************************)
\* Registrations made by the parent and the nested object together.
MaxFields == 3

(***************************************************************************)
(* Python values                                                           *)
(***************************************************************************)
PyStr(s) == [py |-> "str", v |-> s]
PyInt(s) == [py |-> "int", v |-> s]

TRANSLATABLE_CONTENT_FORMAT_HTML == "html"
TRANSLATABLE_CONTENT_FORMAT_UNICODE_STRING == "unicode"
TRANSLATABLE_CONTENT_FORMAT_OBJECT == "object"
Formats == {TRANSLATABLE_CONTENT_FORMAT_HTML, TRANSLATABLE_CONTENT_FORMAT_UNICODE_STRING}

\* TranslatableContent.__init__(content_type, value, content_hash)
TranslatableContent(content_type, value, content_hash) ==
    [kind |-> "content", type |-> content_type, value |-> value,
     hash |-> content_hash, id |-> "-"]

\* TranslatableContent.create_default_translatable_content(content_type)
create_default_translatable_content(content_type) ==
    TranslatableContent(content_type, PyStr(""), "")

\* A nested BaseTranslatableObject, by identity.
TranslatableObject(id) ==
    [kind |-> "object", type |-> "-", value |-> PyStr("-"), hash |-> "-", id |-> id]

\* A plain string handed to the registration primitive in place of a TranslatableContent.
RawString(s) ==
    [kind |-> "str", type |-> "-", value |-> PyStr(s), hash |-> "-", id |-> "-"]

\* TranslatedContent.__init__(content_type, value, content_hash, needs_update)
TranslatedContent(content_type, value, content_hash, needs_update) ==
    [type |-> content_type, value |-> value, hash |-> content_hash,
     needs_update |-> needs_update]

ObjIds == {"parent", "child"}

\* One call self._register_translatable_field(field_type, translatable_field).
Registration(field_type, field) == [field_type |-> field_type, field |-> field]

\* One call self._register_translatable_field(field_type, content_id, value),
\* as the traversals of translation_domain_test.py make it.
RegistrationWithId(field_type, content_id, value) ==
    [field_type |-> field_type, content_id |-> content_id, field |-> RawString(value)]

\* The registrations of leaf fields the objects under test make.
LeafRegistrations ==
    { Registration("html", TranslatableContent("html", PyStr("a"), "h1")),
      Registration("html", TranslatableContent("html", PyStr("b"), "h1")),
      Registration("unicode", TranslatableContent("unicode", PyStr("c"), "h2")),
      Registration("unicode", create_default_translatable_content("unicode")),
      Registration("html", TranslatableContent("unicode", PyStr("c"), "h2")),
      Registration("html", TranslatableContent("html", PyInt("5"), "h2")),
      Registration("html", RawString("a")) }

\* The parent may also delegate to the nested object.
ParentRegistrations ==
    LeafRegistrations \cup {Registration("object", TranslatableObject("child"))}

Range(f) == {f[i] : i \in DOMAIN f}

SeqsUpTo(S, n) == UNION {[1..k -> S] : k \in 0..n}

\* The hashes that may have a translation in the EntityTranslations record.
TranslatedHashes == {"h1"}

\* The translations mappings an EntityTranslations record is given.
Records ==
    UNION { [D -> {TranslatedContent("html", PyStr("t"), "src", nu) : nu \in BOOLEAN}]
            : D \in SUBSET TranslatedHashes }

(***************************************************************************)
(* collections.defaultdict(list): keys in insertion order                  *)
(***************************************************************************)
EmptyDict == <<>>

DictKeys(d) == {d[i].key : i \in DOMAIN d}

DictItems(d, k) ==
    IF k \in DictKeys(d)
    THEN d[CHOOSE i \in DOMAIN d : d[i].key = k].items
    ELSE <<>>

\* d[k] += xs (and d[k].append(x) with xs = <<x>>): a missing key is created.
DictExtend(d, k, xs) ==
    IF k \in DictKeys(d)
    THEN [i \in DOMAIN d |->
            IF d[i].key = k THEN [key |-> k, items |-> d[i].items \o xs] ELSE d[i]]
    ELSE Append(d, [key |-> k, items |-> xs])

\* list(d.values())
DictValues(d) == [i \in DOMAIN d |-> d[i].items]

Returned(x) == [exc |-> "none", val |-> x]
Raised(e, x) == [exc |-> e, val |-> x]

(***************************************************************************)
(* BaseTranslatableObject                                                  *)
(***************************************************************************)
RECURSIVE MergeFrom(_, _, _)
MergeFrom(d, translatable_fields, i) ==
    IF i > Len(translatable_fields) THEN d
    ELSE MergeFrom(
            DictExtend(d, translatable_fields[i].key, translatable_fields[i].items),
            translatable_fields, i + 1)

\* A merge that assigns the nested object's list instead of extending the parent's.
MergeFieldsAssign(d, translatable_fields) ==
    LET keep == SelectSeq(d, LAMBDA e : e.key \notin DictKeys(translatable_fields))
    IN keep \o translatable_fields

\* for content_type, contents in translatable_fields.items():
\*     self._translatable_contents[content_type] += (contents)
MergeFields(d, translatable_fields) == MergeFrom(d, translatable_fields, 1)

\* The leaf branch with the empty-value test left out.
RegisterContentKeepEmpty(d, field_type, field) ==
    IF field.kind # "content"
    THEN Raised("Exception: Expected TranslatableContent", d)
    ELSE IF field_type # field.type
    THEN Raised("Exception: Expected field type", d)
    ELSE Returned(DictExtend(d, field_type, <<field>>))

\* The leaf branch with the field-type test left out.
RegisterContentAnyType(d, field_type, field) ==
    IF field.kind # "content"
    THEN Raised("Exception: Expected TranslatableContent", d)
    ELSE IF field.value # PyStr("")
    THEN Returned(DictExtend(d, field_type, <<field>>))
    ELSE Returned(d)

\* The leaf branch with the string test of TranslatableContent.validate added.
RegisterContentStrOnly(d, field_type, field) ==
    IF field.kind # "content"
    THEN Raised("Exception: Expected TranslatableContent", d)
    ELSE IF field_type # field.type
    THEN Raised("Exception: Expected field type", d)
    ELSE IF field.value.py # "str"
    THEN Raised("ValidationError: Invalid value of the content", d)
    ELSE IF field.value # PyStr("")
    THEN Returned(DictExtend(d, field_type, <<field>>))
    ELSE Returned(d)

\* _register_translatable_field for a field_type other than 'object'.
\* content_hash is the local dict the method creates on every call.
RegisterContent(d, field_type, field) ==
    LET content_hash == {}
    IN IF field.kind # "content"
       THEN Raised("Exception: Expected TranslatableContent", d)
       ELSE IF field_type # field.type
       THEN Raised("Exception: Expected field type", d)
       ELSE IF field.hash \in content_hash
       THEN Returned(d)
       ELSE IF field.value # PyStr("")
       THEN Returned(DictExtend(d, field_type, <<field>>))
       ELSE Returned(d)

\* A base method that returns instead of raising.
BaseRegisterAllPass(self, heap) == Returned(heap)

\* BaseTranslatableObject._register_all_translatable_fields: raise NotImplementedError
BaseRegisterAll(self, heap) == Raised("NotImplementedError", heap)

RECURSIVE get_translatable_fields(_, _)
RECURSIVE Traverse(_, _, _)

\* self._register_translatable_field(field_type, translatable_field); heap maps
\* every object to its _translatable_contents.
\* The method takes two arguments besides self: a call with three raises
\* TypeError before its body runs.
register_translatable_field(self, heap, reg) ==
    IF "content_id" \in DOMAIN reg
    THEN Raised("TypeError", heap)
    ELSE IF reg.field_type = TRANSLATABLE_CONTENT_FORMAT_OBJECT
    THEN IF reg.field.kind # "object"
         THEN Raised("AttributeError", heap)
         ELSE LET r == get_translatable_fields(reg.field.id, heap)
              IN IF r.exc # "none"
                 THEN r
                 ELSE Returned([r.val EXCEPT
                         ![self] = MergeFields(@, r.val[reg.field.id])])
    ELSE LET r == RegisterContent(heap[self], reg.field_type, reg.field)
         IN [exc |-> r.exc, val |-> [heap EXCEPT ![self] = r.val]]

\* A subclass's _register_all_translatable_fields: its registrations from the
\* i-th on; an exception ends the traversal.
Traverse(self, heap, i) ==
    IF i > Len(fields[self]) THEN Returned(heap)
    ELSE LET r == register_translatable_field(self, heap, fields[self][i])
         IN IF r.exc # "none" THEN r ELSE Traverse(self, r.val, i + 1)

register_all_translatable_fields(self, heap) ==
    IF implemented[self] THEN Traverse(self, heap, 1) ELSE BaseRegisterAll(self, heap)

\* get_translatable_fields without the assignment of a new defaultdict.
GetTranslatableFieldsKeeping(self, heap) ==
    register_all_translatable_fields(self, heap)

\* BaseTranslatableObject.get_translatable_fields; the mapping returned is
\* val[self] of the result.
get_translatable_fields(self, heap) ==
    register_all_translatable_fields(self, [heap EXCEPT ![self] = EmptyDict])

\* The loop of get_all_content_which_needs_translations over
\* self.get_translatable_fields().values(). Every value of the mapping is a
\* list of TranslatableContent, and a list has no attribute 'hash': the first
\* iteration raises AttributeError before anything is appended.
ScanValues(values, entity_translations_dict) ==
    LET contents_which_need_translation == <<>>
    IN IF values = <<>>
       THEN Returned(contents_which_need_translation)
       ELSE Raised("AttributeError", contents_which_need_translation)

(***************************************************************************)
(* Calls on the parent object                                              *)
(***************************************************************************)
CallGetTranslatableFields ==
    LET r == get_translatable_fields("parent", contents)
    IN /\ contents' = r.val
       /\ lastCall' = "get_translatable_fields"
       /\ gtfOutcome' = IF r.exc = "none" THEN "return" ELSE r.exc
       /\ mapping' = IF r.exc = "none" THEN r.val["parent"] ELSE EmptyDict
       /\ UNCHANGED <<fields, implemented, translations, gacOutcome, needing,
                      returnedBefore>>
       /\ UNCHANGED notRegVars

\* A scan that clears needs_update on the entries it finds stale.
CallGetAllContentMarking ==
    LET r == get_translatable_fields("parent", contents)
        s == ScanValues(DictValues(r.val["parent"]), translations)
    IN /\ contents' = r.val
       /\ lastCall' = "get_all_content_which_needs_translations"
       /\ gacOutcome' = IF r.exc # "none" THEN r.exc
                        ELSE IF s.exc # "none" THEN s.exc ELSE "return"
       /\ needing' = IF r.exc = "none" /\ s.exc = "none" THEN s.val ELSE <<>>
       /\ returnedBefore' = (gtfOutcome # "none")
       /\ translations' = [h \in DOMAIN translations |->
                             [translations[h] EXCEPT !.needs_update = FALSE]]
       /\ UNCHANGED <<fields, implemented, gtfOutcome, mapping>>
       /\ UNCHANGED notRegVars

CallGetAllContentWhichNeedsTranslations ==
    LET r == get_translatable_fields("parent", contents)
        s == ScanValues(DictValues(r.val["parent"]), translations)
    IN /\ contents' = r.val
       /\ lastCall' = "get_all_content_which_needs_translations"
       /\ gacOutcome' = IF r.exc # "none" THEN r.exc
                        ELSE IF s.exc # "none" THEN s.exc ELSE "return"
       /\ needing' = IF r.exc = "none" /\ s.exc = "none" THEN s.val ELSE <<>>
       /\ returnedBefore' = (gtfOutcome # "none")
       /\ UNCHANGED <<fields, implemented, translations, gtfOutcome, mapping>>
       /\ UNCHANGED notRegVars

DelegatesToChild(fs) ==
    \E i \in DOMAIN fs : fs[i].field_type = TRANSLATABLE_CONTENT_FORMAT_OBJECT

\* get_translatable_fields called on the second object.
CallChildGetTranslatableFields ==
    LET r == get_translatable_fields("child", contents)
    IN /\ contents' = r.val
       /\ lastCall' = "child.get_translatable_fields"
       /\ gtfOutcome' = IF r.exc = "none" THEN "return" ELSE r.exc
       /\ mapping' = IF r.exc = "none" THEN r.val["child"] ELSE EmptyDict
       /\ UNCHANGED <<fields, implemented, translations, gacOutcome, needing,
                      returnedBefore>>
       /\ UNCHANGED notRegVars

\* The longest traversal of the two objects that are called side by side.
MaxOwnFields == 2

\* The registrations of those two objects.
OwnRegistrations ==
    { Registration("html", TranslatableContent("html", PyStr("a"), "h1")),
      Registration("unicode", TranslatableContent("unicode", PyStr("c"), "h2")),
      RegistrationWithId("unicode", "content_id_2", "My name is jack."),
      RegistrationWithId("unicode", "content_id_2", "My name is jhon.") }

PvIdle ==
    /\ schema = <<>>
    /\ handler_args = <<>>
    /\ strict = TRUE
    /\ pvOutcome = "none"
    /\ errors = <<>>
    /\ normalized = {}
    /\ response = "none"

\* No value object has been validated.
ValIdle ==
    /\ subject = [kind |-> "none"]
    /\ valOutcome = [exc |-> "none", val |-> "not called"]

\* No object is converted.
NoObject == [kind |-> "none"]
DictIdle ==
    /\ original = NoObject
    /\ as_dict = NoObject
    /\ rebuilt = [exc |-> "none", val |-> NoObject]

\* The two containers are empty and unused.
MapIdle ==
    /\ translations_mapping = <<>>
    /\ voiceovers_mapping = <<>>
    /\ mapCall = [op |-> "none"]
    /\ mapOutcome = [exc |-> "none", val |-> "not called"]
    /\ added = [c \in {"WrittenTranslations", "RecordedVoiceovers"} |-> {}]

Init ==
    /\ ValIdle
    /\ MapIdle
    /\ DictIdle
    /\ implemented \in [ObjIds -> BOOLEAN]
    /\ \E pf \in SeqsUpTo(ParentRegistrations, MaxFields) :
         /\ implemented["parent"] \/ pf = <<>>
         /\ DelegatesToChild(pf) \/ implemented["child"]
         /\ \E cf \in SeqsUpTo(LeafRegistrations, MaxFields - Len(pf)) :
              /\ (DelegatesToChild(pf) /\ implemented["child"]) \/ cf = <<>>
              /\ fields = [o \in ObjIds |-> IF o = "parent" THEN pf ELSE cf]
    /\ contents = [o \in ObjIds |-> EmptyDict]
    /\ translations \in Records
    /\ lastCall = "none"
    /\ gtfOutcome = "none"
    /\ mapping = EmptyDict
    /\ gacOutcome = "none"
    /\ needing = <<>>
    /\ returnedBefore = FALSE
    /\ PvIdle

Next ==
    \/ CallGetTranslatableFields
    \/ CallGetAllContentWhichNeedsTranslations

Spec == Init /\ [][Next]_vars

\* Two objects with a traversal each (the first may delegate to the second),
\* on both of which get_translatable_fields is called, in any order.
InitObjects ==
    /\ ValIdle
    /\ MapIdle
    /\ DictIdle
    /\ PvIdle
    /\ implemented = [o \in ObjIds |-> TRUE]
    /\ \E pf \in SeqsUpTo(OwnRegistrations
                             \cup {Registration("object", TranslatableObject("child"))},
                           MaxOwnFields),
          cf \in SeqsUpTo(OwnRegistrations, MaxOwnFields) :
          fields = [o \in ObjIds |-> IF o = "parent" THEN pf ELSE cf]
    /\ contents = [o \in ObjIds |-> EmptyDict]
    /\ translations = <<>>
    /\ lastCall = "none"
    /\ gtfOutcome = "none"
    /\ mapping = EmptyDict
    /\ gacOutcome = "none"
    /\ needing = <<>>
    /\ returnedBefore = FALSE

NextObjects ==
    \/ CallGetTranslatableFields
    \/ CallChildGetTranslatableFields

SpecObjects == InitObjects /\ [][NextObjects]_vars

(***************************************************************************)
(* payload_validator.validate                                              *)
(***************************************************************************)
PyNone == "None"
Valid == "valid"        \* a value normalize_against_schema accepts
Invalid == "invalid"    \* a value normalize_against_schema raises on

\* The keys of handler_args_schema, in the order its items() yields them.
SchemaOrder == <<"x", "y">>
SchemaArgs == Range(SchemaOrder)
\* The keys handler_args may carry: "z" is in no schema.
HandlerArgNames == SchemaArgs \cup {"z"}

\* One entry of handler_args_schema: the 'optional' and 'default' keys it may carry.
SchemaEntry(has_optional, optional, has_default, default) ==
    [has_optional |-> has_optional, optional |-> optional,
     has_default |-> has_default, default |-> default]

SchemaEntries ==
    { SchemaEntry(FALSE, FALSE, FALSE, PyNone) }
    \cup { SchemaEntry(TRUE, o, FALSE, PyNone) : o \in BOOLEAN }
    \cup { SchemaEntry(FALSE, FALSE, TRUE, d) : d \in {PyNone, Valid, Invalid} }
    \cup { SchemaEntry(TRUE, o, TRUE, d) : o \in BOOLEAN, d \in {PyNone, Valid, Invalid} }

Schemas == UNION { [D -> SchemaEntries] : D \in SUBSET SchemaArgs }

HandlerArgs == UNION { [D -> {Valid, Invalid}] : D \in SUBSET HandlerArgNames }

\* schema_utils.normalize_against_schema(value, arg_schema, strict_validation) raises.
NormalizeRaises(value, arg_schema, strict_validation) == value = Invalid

SchemaError(arg_key) == [kind |-> "Schema validation failed", args |-> {arg_key}]
MissingError(args) == [kind |-> "Missing args", args |-> args]
ExtraError(args) == [kind |-> "Found extra params", args |-> args]

\* The loop body with default_present left FALSE after a default is taken.
ValidateArgDefaultRequired(st, arg_key, args, strict_validation) ==
    LET arg_schema == st.schema[arg_key]
        optional == IF arg_schema.has_optional THEN arg_schema.optional ELSE FALSE
        s1 == [arg_schema EXCEPT !.has_optional = FALSE, !.optional = FALSE]
        st1 == [st EXCEPT !.schema[arg_key] = s1]
        absent == arg_key \notin DOMAIN args
    IN IF absent /\ optional THEN st1
       ELSE IF absent /\ s1.has_default /\ s1.default = PyNone THEN st1
       ELSE IF absent /\ ~s1.has_default
       THEN [st1 EXCEPT !.required_args = @ \cup {arg_key}]
       ELSE LET s2 == IF absent THEN [s1 EXCEPT !.has_default = FALSE, !.default = PyNone]
                      ELSE s1
                value == IF absent THEN s1.default ELSE args[arg_key]
                st2 == [st1 EXCEPT
                          !.schema[arg_key] = s2,
                          !.required_args = IF ~optional THEN @ \cup {arg_key} ELSE @,
                          !.normalized = @ \cup {arg_key}]
            IN IF NormalizeRaises(value, s2, strict_validation)
               THEN [st2 EXCEPT !.errors = Append(@, SchemaError(arg_key))]
               ELSE st2

\* The loop body without the `if value == None: continue` of a default.
ValidateArgNormalizeNone(st, arg_key, args, strict_validation) ==
    LET arg_schema == st.schema[arg_key]
        optional == IF arg_schema.has_optional THEN arg_schema.optional ELSE FALSE
        s1 == [arg_schema EXCEPT !.has_optional = FALSE, !.optional = FALSE]
        st1 == [st EXCEPT !.schema[arg_key] = s1]
        absent == arg_key \notin DOMAIN args
    IN IF absent /\ optional THEN st1
       ELSE IF absent /\ ~s1.has_default
       THEN [st1 EXCEPT !.required_args = @ \cup {arg_key}]
       ELSE LET default_present == absent
                s2 == IF absent THEN [s1 EXCEPT !.has_default = FALSE, !.default = PyNone]
                      ELSE s1
                value == IF default_present THEN s1.default ELSE args[arg_key]
                st2 == [st1 EXCEPT
                          !.schema[arg_key] = s2,
                          !.required_args =
                              IF ~optional /\ ~default_present THEN @ \cup {arg_key} ELSE @,
                          !.normalized = @ \cup {arg_key}]
            IN IF NormalizeRaises(value, s2, strict_validation)
               THEN [st2 EXCEPT !.errors = Append(@, SchemaError(arg_key))]
               ELSE st2

\* The loop body with the exception of normalize_against_schema swallowed.
ValidateArgSwallow(st, arg_key, args, strict_validation) ==
    LET arg_schema == st.schema[arg_key]
        optional == IF arg_schema.has_optional THEN arg_schema.optional ELSE FALSE
        s1 == [arg_schema EXCEPT !.has_optional = FALSE, !.optional = FALSE]
        st1 == [st EXCEPT !.schema[arg_key] = s1]
        absent == arg_key \notin DOMAIN args
    IN IF absent /\ optional THEN st1
       ELSE IF absent /\ s1.has_default /\ s1.default = PyNone THEN st1
       ELSE IF absent /\ ~s1.has_default
       THEN [st1 EXCEPT !.required_args = @ \cup {arg_key}]
       ELSE LET s2 == IF absent THEN [s1 EXCEPT !.has_default = FALSE, !.default = PyNone]
                      ELSE s1
            IN [st1 EXCEPT
                  !.schema[arg_key] = s2,
                  !.required_args = IF ~optional /\ ~absent THEN @ \cup {arg_key} ELSE @,
                  !.normalized = @ \cup {arg_key}]

\* One iteration of `for arg_key, arg_schema in handler_args_schema.items()`.
\* st carries the schema (its entries are changed in place), errors,
\* required_args and the arguments handed to normalize_against_schema.
ValidateArg(st, arg_key, args, strict_validation) ==
    LET arg_schema == st.schema[arg_key]
        optional == IF arg_schema.has_optional THEN arg_schema.optional ELSE FALSE
        \* del arg_schema['optional']
        s1 == [arg_schema EXCEPT !.has_optional = FALSE, !.optional = FALSE]
        st1 == [st EXCEPT !.schema[arg_key] = s1]
        absent == arg_key \notin DOMAIN args
    IN IF absent /\ optional THEN st1
       ELSE IF absent /\ s1.has_default /\ s1.default = PyNone THEN st1
       ELSE IF absent /\ ~s1.has_default
       THEN [st1 EXCEPT !.required_args = @ \cup {arg_key}]
       ELSE LET default_present == absent
                \* del arg_schema['default']
                s2 == IF absent THEN [s1 EXCEPT !.has_default = FALSE, !.default = PyNone]
                      ELSE s1
                value == IF default_present THEN s1.default ELSE args[arg_key]
                st2 == [st1 EXCEPT
                          !.schema[arg_key] = s2,
                          !.required_args =
                              IF ~optional /\ ~default_present THEN @ \cup {arg_key} ELSE @,
                          !.normalized = @ \cup {arg_key}]
            IN IF NormalizeRaises(value, s2, strict_validation)
               THEN [st2 EXCEPT !.errors = Append(@, SchemaError(arg_key))]
               ELSE st2

RECURSIVE ValidateLoop(_, _, _, _)
ValidateLoop(st, keys, args, strict_validation) ==
    IF keys = <<>> THEN st
    ELSE ValidateLoop(ValidateArg(st, Head(keys), args, strict_validation),
                      Tail(keys), args, strict_validation)

\* The statements after the loop. extra_args is bound only under
\* strict_validation: reading it otherwise raises UnboundLocalError.
ValidateFinish(st, args, strict_validation) ==
    LET missing_args == st.required_args \ DOMAIN args
        extra_args == DOMAIN args \ DOMAIN st.schema
        e1 == IF missing_args # {} THEN Append(st.errors, MissingError(missing_args))
              ELSE st.errors
    IN IF ~strict_validation
       THEN [exc |-> "UnboundLocalError", errors |-> <<>>]
       ELSE [exc |-> "none",
             errors |-> IF extra_args # {} THEN Append(e1, ExtraError(extra_args)) ELSE e1]

\* validate(handler_args, handler_args_schema, strict_validation)
validate(args, handler_args_schema, strict_validation) ==
    LET st0 == [schema |-> handler_args_schema, errors |-> <<>>,
                required_args |-> {}, normalized |-> {}]
        keys == SelectSeq(SchemaOrder, LAMBDA k : k \in DOMAIN handler_args_schema)
        st == ValidateLoop(st0, keys, args, strict_validation)
        fin == ValidateFinish(st, args, strict_validation)
    IN [exc |-> fin.exc, errors |-> fin.errors, schema |-> st.schema,
        normalized |-> st.normalized]

CallValidate ==
    \E args \in HandlerArgs, strict_validation \in BOOLEAN :
        LET r == validate(args, schema, strict_validation)
        IN /\ schema' = r.schema
           /\ handler_args' = args
           /\ strict' = strict_validation
           /\ pvOutcome' = IF r.exc = "none" THEN "return" ELSE r.exc
           /\ errors' = r.errors
           /\ normalized' = r.normalized
           /\ response' = "none"
           /\ UNCHANGED notPvVars

\* The handler layer: the request's arguments are forwarded to validate
\* (strict_validation at its default, True); a non-empty error list is
\* answered with status 400, an empty one lets the request be processed.
HandleRequest ==
    \E args \in HandlerArgs :
        LET r == validate(args, schema, TRUE)
        IN /\ schema' = r.schema
           /\ handler_args' = args
           /\ strict' = TRUE
           /\ pvOutcome' = IF r.exc = "none" THEN "return" ELSE r.exc
           /\ errors' = r.errors
           /\ normalized' = r.normalized
           /\ response' = IF r.exc # "none" THEN "500"
                           ELSE IF r.errors # <<>> THEN "400" ELSE "200"
           /\ UNCHANGED notPvVars

RegIdle ==
    /\ fields = [o \in ObjIds |-> <<>>]
    /\ implemented = [o \in ObjIds |-> TRUE]
    /\ contents = [o \in ObjIds |-> EmptyDict]
    /\ translations = <<>>
    /\ lastCall = "none"
    /\ gtfOutcome = "none"
    /\ mapping = EmptyDict
    /\ gacOutcome = "none"
    /\ needing = <<>>
    /\ returnedBefore = FALSE

InitPayload ==
    /\ RegIdle
    /\ ValIdle
    /\ MapIdle
    /\ DictIdle
    /\ schema \in Schemas
    /\ handler_args = <<>>
    /\ strict = TRUE
    /\ pvOutcome = "none"
    /\ errors = <<>>
    /\ normalized = {}
    /\ response = "none"

NextPayload ==
    \/ CallValidate
    \/ HandleRequest

SpecPayload == InitPayload /\ [][NextPayload]_vars

(***************************************************************************)
(* Voiceover.validate and MachineTranslation.validate                      *)
(***************************************************************************)

\* The longest filename, in units.
MaxNameLen == 3

\* A Python number: its type and its value (a float carries a whole value).
PyNum(t, n) == [py |-> t, n |-> n]

\* A filename is a str made of units: "." or a text without a dot.
NameUnits == {".", "a", "mp3"}
Filename(units) == [py |-> "str", chars |-> units]

\* isinstance(x, cls); bool is a subclass of int.
IsInstance(x, cls) == x.py = cls \/ (cls = "int" /\ x.py = "bool")

\* The names bound in the module namespace of translation_domain.py: its
\* imports and its own top-level definitions.
ModuleGlobals ==
    {"annotations", "utils", "Dict", "DefaultDict", "collections", "html_cleaner",
     "BaseTranslatableObject", "EntityTranslations", "TranslatableContent",
     "TranslatedContent", "MachineTranslation", "TranslatableItem",
     "WrittenTranslation", "Voiceover", "WrittenTranslations", "RecordedVoiceovers"}

NameDefined(name) == name \in ModuleGlobals

\* feconf.ACCEPTED_AUDIO_EXTENSIONS, as the text after the last dot.
ACCEPTED_AUDIO_EXTENSIONS == {<<"mp3">>}

\* utils.is_supported_audio_language_code and utils.is_valid_language_code.
SupportedAudioLanguageCodes == {"en", "es", "hi-en"}
ValidLanguageCodes == {"en", "es", "ab"}
LanguageCodes == {"en", "es", "hi-en", "ab", "ABC", "XYZ"}
is_supported_audio_language_code(code) == code \in SupportedAudioLanguageCodes
is_valid_language_code(code) == code \in ValidLanguageCodes

Voiceover(filename, file_size_bytes, needs_update, duration_secs) ==
    [kind |-> "Voiceover", filename |-> filename, file_size_bytes |-> file_size_bytes,
     needs_update |-> needs_update, duration_secs |-> duration_secs]

MachineTranslation(source_language_code, target_language_code) ==
    [kind |-> "MachineTranslation", source_language_code |-> source_language_code,
     target_language_code |-> target_language_code]

\* str.rfind('.') counted in units from 0; -1 when there is no dot.
rfind(units) ==
    IF \E i \in DOMAIN units : units[i] = "."
    THEN (CHOOSE i \in DOMAIN units :
            /\ units[i] = "."
            /\ \A j \in DOMAIN units : units[j] = "." => j <= i) - 1
    ELSE -1

\* The slice units[start:], start counted from 0.
SliceFrom(units, start) == SubSeq(units, start + 1, Len(units))

VoiceoverValidate(self) ==
    IF ~IsInstance(self.filename, "str")
    THEN Raised("ValidationError", "Expected audio filename to be a string")
    ELSE LET dot_index == rfind(self.filename.chars)
             extension == SliceFrom(self.filename.chars, dot_index + 1)
         IN IF dot_index \in {-1, 0}
            THEN Raised("ValidationError", "Invalid audio filename")
            ELSE IF ~NameDefined("feconf")
            THEN Raised("NameError", "feconf")
            ELSE IF extension \notin ACCEPTED_AUDIO_EXTENSIONS
            THEN Raised("ValidationError", "Invalid audio filename: extension")
            ELSE IF ~IsInstance(self.file_size_bytes, "int")
            THEN Raised("ValidationError", "Expected file size to be an int")
            ELSE IF self.file_size_bytes.n <= 0
            THEN Raised("ValidationError", "Invalid file size")
            ELSE IF ~IsInstance(self.needs_update, "bool")
            THEN Raised("ValidationError", "Expected needs_update to be a bool")
            ELSE IF ~IsInstance(self.duration_secs, "float")
            THEN Raised("ValidationError", "Expected duration_secs to be a float")
            ELSE IF self.duration_secs.n < 0
            THEN Raised("ValidationError", "Expected duration_secs to be positive number")
            ELSE Returned(PyNone)

\* validate without the check of the target language code.
MachineTranslationValidateSourceOnly(self) ==
    IF /\ ~is_supported_audio_language_code(self.source_language_code)
       /\ ~is_valid_language_code(self.source_language_code)
    THEN Raised("ValidationError", "Invalid source language code")
    ELSE IF self.source_language_code = self.target_language_code
    THEN Raised("ValidationError", "Expected source_language_code to be different")
    ELSE Returned(PyNone)

\* validate without the comparison of the two codes.
MachineTranslationValidateNoComparison(self) ==
    IF /\ ~is_supported_audio_language_code(self.source_language_code)
       /\ ~is_valid_language_code(self.source_language_code)
    THEN Raised("ValidationError", "Invalid source language code")
    ELSE IF /\ ~is_supported_audio_language_code(self.target_language_code)
            /\ ~is_valid_language_code(self.target_language_code)
    THEN Raised("ValidationError", "Invalid target language code")
    ELSE Returned(PyNone)

MachineTranslationValidate(self) ==
    IF /\ ~is_supported_audio_language_code(self.source_language_code)
       /\ ~is_valid_language_code(self.source_language_code)
    THEN Raised("ValidationError", "Invalid source language code")
    ELSE IF /\ ~is_supported_audio_language_code(self.target_language_code)
            /\ ~is_valid_language_code(self.target_language_code)
    THEN Raised("ValidationError", "Invalid target language code")
    ELSE IF self.source_language_code = self.target_language_code
    THEN Raised("ValidationError", "Expected source_language_code to be different")
    ELSE Returned(PyNone)

\* The attribute values the voiceovers are built from.
Filenames == {Filename(u) : u \in SeqsUpTo(NameUnits, MaxNameLen)} \cup {PyNum("int", 5)}
FileSizes == {PyNum("int", -1), PyNum("int", 0), PyNum("int", 1),
              PyNum("bool", 1), PyNum("float", 1)}
NeedsUpdates == {PyNum("bool", 0), PyNum("bool", 1), PyNum("int", 1)}
Durations == {PyNum("float", -1), PyNum("float", 0), PyNum("float", 1), PyNum("int", 1)}

Voiceovers ==
    {Voiceover(f, b, u, d) : f \in Filenames, b \in FileSizes,
                             u \in NeedsUpdates, d \in Durations}

MachineTranslations ==
    {MachineTranslation(a, b) : a \in LanguageCodes, b \in LanguageCodes}

\* validate reads the object and changes none of its attributes.
CallVoiceoverValidate ==
    /\ subject.kind = "Voiceover"
    /\ valOutcome' = VoiceoverValidate(subject)
    /\ UNCHANGED <<subject, notValVars>>

CallMachineTranslationValidate ==
    /\ subject.kind = "MachineTranslation"
    /\ valOutcome' = MachineTranslationValidate(subject)
    /\ UNCHANGED <<subject, notValVars>>

\* validate has been called on the subject.
Validated == valOutcome.val # "not called"

InitValidate ==
    /\ RegIdle
    /\ PvIdle
    /\ MapIdle
    /\ DictIdle
    /\ subject \in Voiceovers \cup MachineTranslations
    /\ valOutcome = [exc |-> "none", val |-> "not called"]

NextValidate ==
    \/ CallVoiceoverValidate
    \/ CallMachineTranslationValidate

SpecValidate == InitValidate /\ [][NextValidate]_vars

(***************************************************************************)
(* WrittenTranslations and RecordedVoiceovers                              *)
(***************************************************************************)

\* A Python dict with hashable keys, as a function; {} is the empty function.
EmptyMap == <<>>
MapSet(d, k, v) == [x \in DOMAIN d \cup {k} |-> IF x = k THEN v ELSE d[x]]
MapPop(d, k) == [x \in DOMAIN d \ {k} |-> d[x]]

\* The content ids that are keys, and the arguments the operations are called with.
ContentIds == {"c1", "c2"}
ContentIdArgs == {PyStr("c1"), PyStr("c2"), PyInt("5")}

\* WrittenTranslation.__init__(data_format, translation, needs_update)
WrittenTranslation(data_format, translation, needs_update) ==
    [needs_update |-> needs_update, value |-> <<data_format, translation>>]

\* The stored records (WrittenTranslation, Voiceover), by their needs_update
\* flag; value stands for their other attributes.
StoredRecord(needs_update) == WrittenTranslation("html", "stored", needs_update)

\* The language codes the operations are called with.
LanguageCodeArgs == {"en", "hi"}

\* The language maps a content id starts with.
LanguageMaps ==
    {EmptyMap,
     [l \in {"en"} |-> StoredRecord(FALSE)],
     [l \in {"en", "hi"} |-> StoredRecord(l = "en")]}

\* The mappings a container is constructed with.
Mappings == UNION {[ids -> LanguageMaps] : ids \in SUBSET ContentIds}

\* What one operation did: how it ended and the mapping it left.
OpResult(outcome, d) == [outcome |-> outcome, mapping |-> d]

add_content_id_for_translation(translations_map, content_id) ==
    IF ~IsInstance(content_id, "str")
    THEN OpResult(Raised("Exception", "Expected content_id to be a string"), translations_map)
    ELSE IF content_id.v \in DOMAIN translations_map
    THEN OpResult(Raised("Exception", "The content_id already exist."), translations_map)
    ELSE OpResult(Returned(PyNone), MapSet(translations_map, content_id.v, EmptyMap))

\* Deleting without the check that the content id is a key.
DeleteContentIdSilently(translations_map, content_id) ==
    IF ~IsInstance(content_id, "str")
    THEN OpResult(Raised("Exception", "Expected content_id to be a string"), translations_map)
    ELSE OpResult(Returned(PyNone), MapPop(translations_map, content_id.v))

delete_content_id_for_translation(translations_map, content_id) ==
    IF ~IsInstance(content_id, "str")
    THEN OpResult(Raised("Exception", "Expected content_id to be a string"), translations_map)
    ELSE IF content_id.v \notin DOMAIN translations_map
    THEN OpResult(Raised("Exception", "The content_id does not exist."), translations_map)
    ELSE OpResult(Returned(PyNone), MapPop(translations_map, content_id.v))

\* Adding without the check that the content id is not yet a key.
AddContentIdOverwriting(voiceovers_map, content_id) ==
    IF ~IsInstance(content_id, "str")
    THEN OpResult(Raised("Exception", "Expected content_id to be a string"), voiceovers_map)
    ELSE OpResult(Returned(PyNone), MapSet(voiceovers_map, content_id.v, EmptyMap))

add_content_id_for_voiceover(voiceovers_map, content_id) ==
    IF ~IsInstance(content_id, "str")
    THEN OpResult(Raised("Exception", "Expected content_id to be a string"), voiceovers_map)
    ELSE IF content_id.v \in DOMAIN voiceovers_map
    THEN OpResult(Raised("Exception", "The content_id already exist."), voiceovers_map)
    ELSE OpResult(Returned(PyNone), MapSet(voiceovers_map, content_id.v, EmptyMap))

delete_content_id_for_voiceover(voiceovers_map, content_id) ==
    IF ~IsInstance(content_id, "str")
    THEN OpResult(Raised("Exception", "Expected content_id to be a string"), voiceovers_map)
    ELSE IF content_id.v \notin DOMAIN voiceovers_map
    THEN OpResult(Raised("Exception", "The content_id does not exist."), voiceovers_map)
    ELSE OpResult(Returned(PyNone), MapPop(voiceovers_map, content_id.v))

\* The content id is a key of the dict d (d[content_id] raises KeyError otherwise).
HasKey(d, content_id) == IsInstance(content_id, "str") /\ content_id.v \in DOMAIN d

\* Marking one language by marking every language of the content id.
MarkOneAsAll(translations_map, content_id, language_code) ==
    IF ~HasKey(translations_map, content_id)
    THEN OpResult(Raised("KeyError", "content_id"), translations_map)
    ELSE IF language_code \notin DOMAIN translations_map[content_id.v]
    THEN OpResult(Raised("KeyError", "language_code"), translations_map)
    ELSE OpResult(Returned(PyNone),
                  [translations_map EXCEPT ![content_id.v] =
                      [l \in DOMAIN @ |-> [@[l] EXCEPT !.needs_update = TRUE]]])

mark_written_translation_as_needing_update(translations_map, content_id, language_code) ==
    IF ~HasKey(translations_map, content_id)
    THEN OpResult(Raised("KeyError", "content_id"), translations_map)
    ELSE IF language_code \notin DOMAIN translations_map[content_id.v]
    THEN OpResult(Raised("KeyError", "language_code"), translations_map)
    ELSE OpResult(Returned(PyNone),
                  [translations_map EXCEPT
                      ![content_id.v][language_code].needs_update = TRUE])

mark_written_translations_as_needing_update(translations_map, content_id) ==
    IF ~HasKey(translations_map, content_id)
    THEN OpResult(Raised("KeyError", "content_id"), translations_map)
    ELSE OpResult(Returned(PyNone),
                  [translations_map EXCEPT ![content_id.v] =
                      [l \in DOMAIN @ |-> [@[l] EXCEPT !.needs_update = TRUE]]])

\* The longest expected content-id list.
MaxExpected == 2

\* The argument expected_content_id_list: None or a list of content ids.
NoneValue == [py |-> "NoneType"]
PyList(items) == [py |-> "list", items |-> items]
ExpectedLists == {PyList(q) : q \in SeqsUpTo(ContentIds, MaxExpected)} \cup {NoneValue}

\* The loop of validate over the mapping's items. The keys are strings and
\* the values dicts; the first language code met is a string, and the next
\* statement looks up constants, which the module never binds.
ValidateItems(d) ==
    IF \A k \in DOMAIN d : DOMAIN d[k] = {}
    THEN Returned(PyNone)
    ELSE IF ~NameDefined("constants")
    THEN Raised("NameError", "constants")
    ELSE IF \E k \in DOMAIN d : ~(DOMAIN d[k] \subseteq SupportedAudioLanguageCodes)
    THEN Raised("ValidationError", "Invalid language_code")
    ELSE Returned(PyNone)

\* validate with the key-set check under `if expected_content_id_list:`.
ValidateSkippingEmptyList(translations_map, expected_content_id_list) ==
    IF /\ expected_content_id_list # NoneValue
       /\ expected_content_id_list.items # <<>>
       /\ DOMAIN translations_map # Range(expected_content_id_list.items)
    THEN Raised("ValidationError", "Expected state written_translations to match")
    ELSE ValidateItems(translations_map)

\* WrittenTranslations.validate(expected_content_id_list)
WrittenTranslationsValidate(translations_map, expected_content_id_list) ==
    IF /\ expected_content_id_list # NoneValue
       /\ DOMAIN translations_map # Range(expected_content_id_list.items)
    THEN Raised("ValidationError", "Expected state written_translations to match")
    ELSE ValidateItems(translations_map)

\* RecordedVoiceovers.validate(expected_content_id_list)
RecordedVoiceoversValidate(voiceovers_map, expected_content_id_list) ==
    IF /\ expected_content_id_list # NoneValue
       /\ DOMAIN voiceovers_map # Range(expected_content_id_list.items)
    THEN Raised("ValidationError", "Expected state recorded_voiceovers to match")
    ELSE ValidateItems(voiceovers_map)

\* The same reading without the look at needs_update.
GetContentIdsTranslated(translations_map, language_code) ==
    {content_id \in DOMAIN translations_map :
        language_code \in DOMAIN translations_map[content_id]}

\* WrittenTranslations.get_content_ids_that_are_correctly_translated; the
\* list returned, as the set of its elements.
get_content_ids_that_are_correctly_translated(translations_map, language_code) ==
    {content_id \in DOMAIN translations_map :
        /\ language_code \in DOMAIN translations_map[content_id]
        /\ ~translations_map[content_id][language_code].needs_update}

DATA_FORMAT_HTML == "html"

\* WrittenTranslations.add_translation(content_id, language_code, html)
add_translation(translations_map, content_id, language_code, html) ==
    LET written_translation == WrittenTranslation(DATA_FORMAT_HTML, html, FALSE)
    IN IF ~HasKey(translations_map, content_id)
       THEN OpResult(Raised("KeyError", "content_id"), translations_map)
       ELSE OpResult(Returned(PyNone),
                     [translations_map EXCEPT ![content_id.v] =
                         MapSet(@, language_code, written_translation)])

\* Stripping by emptying the whole mapping.
StripContentIds(voiceovers_map) == OpResult(Returned(PyNone), EmptyMap)

\* RecordedVoiceovers.strip_all_existing_voiceovers
strip_all_existing_voiceovers(voiceovers_map) ==
    OpResult(Returned(PyNone), [content_id \in DOMAIN voiceovers_map |-> EmptyMap])

\* The ids added and not deleted since, after a request to add or delete.
AfterAdd(ids, content_id) ==
    IF IsInstance(content_id, "str") THEN ids \cup {content_id.v} ELSE ids
AfterDelete(ids, content_id) ==
    IF IsInstance(content_id, "str") THEN ids \ {content_id.v} ELSE ids

MapCall(cls, op, content_id) == [cls |-> cls, op |-> op, content_id |-> content_id]

CallAddContentIdForTranslation ==
    \E content_id \in ContentIdArgs :
        LET r == add_content_id_for_translation(translations_mapping, content_id)
        IN /\ translations_mapping' = r.mapping
           /\ mapOutcome' = r.outcome
           /\ mapCall' = MapCall("WrittenTranslations", "add", content_id)
           /\ added' = [added EXCEPT !["WrittenTranslations"] = AfterAdd(@, content_id)]
           /\ UNCHANGED <<voiceovers_mapping, notMapVars>>

CallDeleteContentIdForTranslation ==
    \E content_id \in ContentIdArgs :
        LET r == delete_content_id_for_translation(translations_mapping, content_id)
        IN /\ translations_mapping' = r.mapping
           /\ mapOutcome' = r.outcome
           /\ mapCall' = MapCall("WrittenTranslations", "delete", content_id)
           /\ added' = [added EXCEPT !["WrittenTranslations"] = AfterDelete(@, content_id)]
           /\ UNCHANGED <<voiceovers_mapping, notMapVars>>

CallAddContentIdForVoiceover ==
    \E content_id \in ContentIdArgs :
        LET r == add_content_id_for_voiceover(voiceovers_mapping, content_id)
        IN /\ voiceovers_mapping' = r.mapping
           /\ mapOutcome' = r.outcome
           /\ mapCall' = MapCall("RecordedVoiceovers", "add", content_id)
           /\ added' = [added EXCEPT !["RecordedVoiceovers"] = AfterAdd(@, content_id)]
           /\ UNCHANGED <<translations_mapping, notMapVars>>

CallDeleteContentIdForVoiceover ==
    \E content_id \in ContentIdArgs :
        LET r == delete_content_id_for_voiceover(voiceovers_mapping, content_id)
        IN /\ voiceovers_mapping' = r.mapping
           /\ mapOutcome' = r.outcome
           /\ mapCall' = MapCall("RecordedVoiceovers", "delete", content_id)
           /\ added' = [added EXCEPT !["RecordedVoiceovers"] = AfterDelete(@, content_id)]
           /\ UNCHANGED <<translations_mapping, notMapVars>>

CallMarkWrittenTranslationAsNeedingUpdate ==
    \E content_id \in ContentIdArgs, language_code \in LanguageCodeArgs :
        LET r == mark_written_translation_as_needing_update(
                     translations_mapping, content_id, language_code)
        IN /\ translations_mapping' = r.mapping
           /\ mapOutcome' = r.outcome
           /\ mapCall' = [cls |-> "WrittenTranslations", op |-> "mark_one",
                          content_id |-> content_id, language_code |-> language_code]
           /\ UNCHANGED <<voiceovers_mapping, added, notMapVars>>

CallMarkWrittenTranslationsAsNeedingUpdate ==
    \E content_id \in ContentIdArgs :
        LET r == mark_written_translations_as_needing_update(
                     translations_mapping, content_id)
        IN /\ translations_mapping' = r.mapping
           /\ mapOutcome' = r.outcome
           /\ mapCall' = MapCall("WrittenTranslations", "mark_all", content_id)
           /\ UNCHANGED <<voiceovers_mapping, added, notMapVars>>

CallWrittenTranslationsValidate ==
    \E expected_content_id_list \in ExpectedLists :
        /\ mapOutcome' = WrittenTranslationsValidate(
                             translations_mapping, expected_content_id_list)
        /\ mapCall' = [cls |-> "WrittenTranslations", op |-> "validate",
                       expected |-> expected_content_id_list]
        /\ UNCHANGED <<translations_mapping, voiceovers_mapping, added, notMapVars>>

CallRecordedVoiceoversValidate ==
    \E expected_content_id_list \in ExpectedLists :
        /\ mapOutcome' = RecordedVoiceoversValidate(
                             voiceovers_mapping, expected_content_id_list)
        /\ mapCall' = [cls |-> "RecordedVoiceovers", op |-> "validate",
                       expected |-> expected_content_id_list]
        /\ UNCHANGED <<translations_mapping, voiceovers_mapping, added, notMapVars>>

CallGetContentIdsThatAreCorrectlyTranslated ==
    \E language_code \in LanguageCodeArgs :
        /\ mapOutcome' = [exc |-> "none", val |-> "list",
                          ids |-> get_content_ids_that_are_correctly_translated(
                                      translations_mapping, language_code)]
        /\ mapCall' = [cls |-> "WrittenTranslations", op |-> "get_correct",
                       language_code |-> language_code]
        /\ UNCHANGED <<translations_mapping, voiceovers_mapping, added, notMapVars>>

CallAddTranslation ==
    \E content_id \in ContentIdArgs, language_code \in LanguageCodeArgs :
        LET r == add_translation(translations_mapping, content_id, language_code, "new")
        IN /\ translations_mapping' = r.mapping
           /\ mapOutcome' = r.outcome
           /\ mapCall' = [cls |-> "WrittenTranslations", op |-> "add_translation",
                          content_id |-> content_id, language_code |-> language_code]
           /\ UNCHANGED <<voiceovers_mapping, added, notMapVars>>

CallStripAllExistingVoiceovers ==
    LET r == strip_all_existing_voiceovers(voiceovers_mapping)
    IN /\ voiceovers_mapping' = r.mapping
       /\ mapOutcome' = r.outcome
       /\ mapCall' = [cls |-> "RecordedVoiceovers", op |-> "strip"]
       /\ UNCHANGED <<translations_mapping, added, notMapVars>>

\* The containers are constructed with a mapping each; its keys count as added.
InitMappings ==
    /\ RegIdle
    /\ PvIdle
    /\ ValIdle
    /\ DictIdle
    /\ translations_mapping \in Mappings
    /\ voiceovers_mapping \in Mappings
    /\ mapCall = [op |-> "none"]
    /\ mapOutcome = [exc |-> "none", val |-> "not called"]
    /\ added = [c \in {"WrittenTranslations", "RecordedVoiceovers"} |->
                   IF c = "WrittenTranslations" THEN DOMAIN translations_mapping
                   ELSE DOMAIN voiceovers_mapping]

NextMappings ==
    \/ CallAddContentIdForTranslation
    \/ CallDeleteContentIdForTranslation
    \/ CallAddContentIdForVoiceover
    \/ CallDeleteContentIdForVoiceover
    \/ CallWrittenTranslationsValidate
    \/ CallRecordedVoiceoversValidate
    \/ CallStripAllExistingVoiceovers

SpecMappings == InitMappings /\ [][NextMappings]_vars

\* A WrittenTranslations container whose translations are stored, marked as
\* needing update and read.
InitTranslations ==
    /\ RegIdle
    /\ PvIdle
    /\ ValIdle
    /\ DictIdle
    /\ translations_mapping \in Mappings
    /\ voiceovers_mapping = EmptyMap
    /\ mapCall = [op |-> "none"]
    /\ mapOutcome = [exc |-> "none", val |-> "not called"]
    /\ added = [c \in {"WrittenTranslations", "RecordedVoiceovers"} |->
                   IF c = "WrittenTranslations" THEN DOMAIN translations_mapping ELSE {}]

NextTranslations ==
    \/ CallMarkWrittenTranslationAsNeedingUpdate
    \/ CallMarkWrittenTranslationsAsNeedingUpdate
    \/ CallGetContentIdsThatAreCorrectlyTranslated
    \/ CallAddTranslation

SpecTranslations == InitTranslations /\ [][NextTranslations]_vars

(***************************************************************************)
(* to_dict and from_dict of TranslatableContent and TranslatedContent      *)
(***************************************************************************)

\* A Python dict with string keys.
PyDict(items) == [py |-> "dict", items |-> items]

\* TranslatableContent.to_dict
TranslatableContentToDict(self) ==
    PyDict([type |-> self.type, value |-> self.value, hash |-> self.hash])

\* from_dict handing the hash and the value over in each other's place.
TranslatableContentFromDictSwapped(translatable_content_dict) ==
    LET d == translatable_content_dict.items
    IN IF {"type", "value", "hash"} \subseteq DOMAIN d
       THEN Returned(TranslatableContent(d["type"], PyStr(d["hash"]), d["value"].v))
       ELSE Raised("KeyError", NoObject)

\* TranslatableContent.from_dict(translatable_content_dict)
TranslatableContentFromDict(translatable_content_dict) ==
    LET d == translatable_content_dict.items
    IN IF {"type", "value", "hash"} \subseteq DOMAIN d
       THEN Returned(TranslatableContent(d["type"], d["value"], d["hash"]))
       ELSE Raised("KeyError", NoObject)

\* TranslatedContent.to_dict
TranslatedContentToDict(self) ==
    PyDict([type |-> self.type, value |-> self.value, hash |-> self.hash,
            needs_update |-> self.needs_update])

\* TranslatedContent.from_dict(self, translated_content_dict): the class
\* method names its first parameter self and calls cls, which is neither a
\* local nor a module name.
TranslatedContentFromDict(translated_content_dict) ==
    LET d == translated_content_dict.items
        locals == {"self", "translated_content_dict"}
    IN IF "cls" \notin locals /\ ~NameDefined("cls")
       THEN Raised("NameError", NoObject)
       ELSE IF {"content_type", "value", "content_hash", "needs_update"} \subseteq DOMAIN d
       THEN Returned(TranslatedContent(d["content_type"], d["value"], d["content_hash"],
                                       d["needs_update"]))
       ELSE Raised("KeyError", NoObject)

\* The objects that are converted.
ContentValues == {PyStr("a"), PyStr(""), PyStr("b")}
ContentHashes == {"h1", "h2", ""}
TranslatableContents ==
    {TranslatableContent(t, v, h) : t \in Formats, v \in ContentValues, h \in ContentHashes}
TranslatedContents ==
    {TranslatedContent(t, v, h, nu) :
        t \in Formats, v \in ContentValues, h \in ContentHashes, nu \in BOOLEAN}

IsTranslatedContent(obj) == "needs_update" \in DOMAIN obj
IsTranslatableContent(obj) == "kind" \in DOMAIN obj /\ obj.kind = "content"

CallTranslatableContentToDict ==
    /\ IsTranslatableContent(original)
    /\ as_dict' = TranslatableContentToDict(original)
    /\ UNCHANGED <<original, rebuilt, notDictVars>>

CallTranslatableContentFromDict ==
    /\ IsTranslatableContent(original)
    /\ as_dict # NoObject
    /\ rebuilt' = TranslatableContentFromDict(as_dict)
    /\ UNCHANGED <<original, as_dict, notDictVars>>

CallTranslatedContentToDict ==
    /\ IsTranslatedContent(original)
    /\ as_dict' = TranslatedContentToDict(original)
    /\ UNCHANGED <<original, rebuilt, notDictVars>>

CallTranslatedContentFromDict ==
    /\ IsTranslatedContent(original)
    /\ as_dict # NoObject
    /\ rebuilt' = TranslatedContentFromDict(as_dict)
    /\ UNCHANGED <<original, as_dict, notDictVars>>

InitDicts ==
    /\ RegIdle
    /\ PvIdle
    /\ ValIdle
    /\ MapIdle
    /\ original \in TranslatableContents \cup TranslatedContents
    /\ as_dict = NoObject
    /\ rebuilt = [exc |-> "none", val |-> NoObject]

NextDicts ==
    \/ CallTranslatableContentToDict
    \/ CallTranslatableContentFromDict
    \/ CallTranslatedContentToDict
    \/ CallTranslatedContentFromDict

SpecDicts == InitDicts /\ [][NextDicts]_vars

(***************************************************************************)
(* What a traversal is expected to register, stated from the fields        *)
(***************************************************************************)
IsContentReg(reg) ==
    reg.field_type # TRANSLATABLE_CONTENT_FORMAT_OBJECT /\ reg.field.kind = "content"

\* The declared format tag differs from the content's type tag.
IsMismatch(reg) == IsContentReg(reg) /\ reg.field_type # reg.field.type

\* A content registered under its own type tag.
IsMatching(reg) == IsContentReg(reg) /\ reg.field_type = reg.field.type

IsDelegation(reg) ==
    reg.field_type = TRANSLATABLE_CONTENT_FORMAT_OBJECT /\ reg.field.kind = "object"

\* Every registration of the nested object is a content under its own tag.
ChildAccepted(id) ==
    implemented[id] /\ \A k \in DOMAIN fields[id] : IsMatching(fields[id][k])

Accepted(reg) == IsMatching(reg) \/ (IsDelegation(reg) /\ ChildAccepted(reg.field.id))

AllAccepted(fs) == \A k \in DOMAIN fs : Accepted(fs[k])

\* The non-empty contents a sequence of accepted registrations puts in the
\* registry, in traversal order, nested objects included.
RECURSIVE Registered(_)
Registered(fs) ==
    IF fs = <<>> THEN <<>>
    ELSE LET reg == Head(fs)
             own == IF IsDelegation(reg) THEN Registered(fields[reg.field.id])
                    ELSE IF IsContentReg(reg) /\ reg.field.value # PyStr("")
                    THEN <<reg.field>>
                    ELSE <<>>
         IN own \o Registered(Tail(fs))

ByType(cs, t) == SelectSeq(cs, LAMBDA c : c.type = t)

RECURSIVE Concat(_)
Concat(ss) == IF ss = <<>> THEN <<>> ELSE Head(ss) \o Concat(Tail(ss))

\* Every content held by a mapping, key by key.
AllItems(d) == Concat(DictValues(d))

\* The mapping d holds exactly the contents cs, per format tag, in order.
HoldsExactly(d, cs) ==
    /\ DictKeys(d) \subseteq Formats
    /\ \A t \in Formats : DictItems(d, t) = ByType(cs, t)
    /\ \A i \in DOMAIN d : d[i].items # <<>>

NeedsTranslation(c) ==
    c.hash \notin DOMAIN translations \/ translations[c.hash].needs_update

GTF == "get_translatable_fields"
GAC == "get_all_content_which_needs_translations"

(***************************************************************************)
(* Claims                                                                  *)
(***************************************************************************)

\* C1: within one get_translatable_fields traversal (no delegation), the
\* mapping returned never holds two contents with the same hash: of two
\* registrations sharing a hash only the first is retained.
C1_NoTwoContentsShareAHash ==
    (gtfOutcome = "return" /\ ~DelegatesToChild(fields["parent"])) =>
        LET items == AllItems(mapping)
        IN \A i, j \in DOMAIN items : i # j => items[i].hash # items[j].hash

\* C2: get_all_content_which_needs_translations returns exactly the registered
\* contents whose hash is not a key of the translations mapping or whose
\* TranslatedContent has needs_update true.
C2_ReturnsExactlyContentsNeedingTranslation ==
    (gacOutcome # "none" /\ AllAccepted(fields["parent"]) /\ implemented["parent"]) =>
        /\ gacOutcome = "return"
        /\ needing = SelectSeq(Registered(fields["parent"]), NeedsTranslation)

\* C3: whenever content a is registered before content b and both need
\* translation, a precedes b in the list get_all_content_which_needs_translations
\* returns.
C3_PreservesRegistrationOrder ==
    (gacOutcome # "none" /\ AllAccepted(fields["parent"]) /\ implemented["parent"]) =>
        LET reg == Registered(fields["parent"])
        IN /\ gacOutcome = "return"
           /\ \A i, j \in DOMAIN reg :
                (i < j /\ NeedsTranslation(reg[i]) /\ NeedsTranslation(reg[j])) =>
                    \E p, q \in DOMAIN needing :
                        p < q /\ needing[p] = reg[i] /\ needing[q] = reg[j]

\* C4: no TranslatableContent whose value is the empty string is ever held by
\* a registry, by the mapping get_translatable_fields returns or by the list
\* get_all_content_which_needs_translations returns, nested objects included.
C4_NoEmptyValueRegistered ==
    /\ \A o \in ObjIds : \A c \in Range(AllItems(contents[o])) : c.value # PyStr("")
    /\ \A c \in Range(AllItems(mapping)) : c.value # PyStr("")
    /\ \A c \in Range(needing) : c.value # PyStr("")

\* C4 witness: a traversal that delegates to a nested object registering an
\* empty value has returned a non-empty mapping.
C4_Witness ==
    /\ gtfOutcome = "return"
    /\ mapping # EmptyDict
    /\ DelegatesToChild(fields["parent"])
    /\ \E k \in DOMAIN fields["child"] :
         /\ IsMatching(fields["child"][k])
         /\ fields["child"][k].field.value = PyStr("")

Reaches(fs, k) == k \in DOMAIN fs /\ AllAccepted(SubSeq(fs, 1, k - 1))

\* C6: a registration whose declared format tag differs from the content's
\* type tag is rejected with an error and adds nothing: the registry holds
\* what the registrations before it put there, and no mapping is returned.
C6_MismatchedFormatRejected ==
    /\ \A k \in DOMAIN fields["parent"] :
         (lastCall # "none" /\ implemented["parent"]
            /\ Reaches(fields["parent"], k) /\ IsMismatch(fields["parent"][k])) =>
            /\ gtfOutcome \in {"none", "Exception: Expected field type"}
            /\ gacOutcome \in {"none", "Exception: Expected field type"}
            /\ mapping = EmptyDict
            /\ HoldsExactly(contents["parent"],
                            Registered(SubSeq(fields["parent"], 1, k - 1)))
    /\ \A k \in DOMAIN fields["parent"], m \in DOMAIN fields["child"] :
         (lastCall # "none" /\ implemented["parent"] /\ implemented["child"]
            /\ Reaches(fields["parent"], k) /\ IsDelegation(fields["parent"][k])
            /\ Reaches(fields["child"], m) /\ IsMismatch(fields["child"][m])) =>
            /\ gtfOutcome \in {"none", "Exception: Expected field type"}
            /\ gacOutcome \in {"none", "Exception: Expected field type"}
            /\ mapping = EmptyDict
            /\ HoldsExactly(contents["child"],
                            Registered(SubSeq(fields["child"], 1, m - 1)))
            /\ HoldsExactly(contents["parent"],
                            Registered(SubSeq(fields["parent"], 1, k - 1)))

\* C6 witness: a registration was rejected for its format tag after another
\* one had been accepted.
C6_Witness ==
    /\ gtfOutcome = "Exception: Expected field type"
    /\ contents["parent"] # EmptyDict
    /\ \E k \in DOMAIN fields["parent"] :
         Reaches(fields["parent"], k) /\ IsMismatch(fields["parent"][k])

\* A content registered under its own html/unicode tag whose value is no string.
IsNonString(reg) == IsMatching(reg) /\ reg.field.value.py # "str"

C8_UnimplementedTraversalFails ==
    ~implemented["parent"] =>
        /\ gtfOutcome \in {"none", "NotImplementedError"}
        /\ gacOutcome \in {"none", "NotImplementedError"}
        /\ mapping = EmptyDict
        /\ needing = <<>>

\* C8 witness: both methods were called on such an object.
C8_Witness ==
    /\ ~implemented["parent"]
    /\ gtfOutcome = "NotImplementedError"
    /\ gacOutcome = "NotImplementedError"

\* C9: get_all_content_which_needs_translations changes neither the
\* EntityTranslations record nor the object, and a get_translatable_fields
\* call after it returns what the call before it returned.
C9_ScanHasNoSideEffects ==
    [][ /\ lastCall' = GAC =>
             /\ translations' = translations
             /\ fields' = fields
             /\ implemented' = implemented
        /\ (lastCall = GAC /\ returnedBefore /\ lastCall' = GTF) =>
             /\ gtfOutcome' = gtfOutcome
             /\ mapping' = mapping ]_vars

\* C9 witness: get_translatable_fields returned a non-empty mapping before and
\* after a scan against a record with a stale entry.
C9_Witness ==
    /\ lastCall = GTF
    /\ returnedBefore
    /\ gacOutcome # "none"
    /\ gtfOutcome = "return"
    /\ mapping # EmptyDict
    /\ \E h \in DOMAIN translations : translations[h].needs_update

\* The argument names the errors of a list name under one kind.
NamedIn(errs, kind) == UNION {errs[i].args : i \in {j \in DOMAIN errs : errs[j].kind = kind}}

\* The argument names any error of a list names.
NamedInAny(errs) == UNION {errs[i].args : i \in DOMAIN errs}

\* An entry that carries a default and is not marked optional.
CarriesDefault(entry) ==
    entry.has_default /\ ~(entry.has_optional /\ entry.optional)

\* The call validate({}, {"x": {"default": d}}, True) is this step.
IsDefaultExampleCall ==
    /\ DOMAIN schema = {"x"}
    /\ schema["x"].has_default /\ ~schema["x"].has_optional
    /\ schema["x"].default # PyNone
    /\ handler_args' = <<>>
    /\ strict'
    /\ pvOutcome' = "return"

MissingRequired(sch, args) ==
    {a \in DOMAIN sch : /\ a \notin DOMAIN args
                        /\ ~(sch[a].has_optional /\ sch[a].optional)
                        /\ ~sch[a].has_default}

\* The keys of args the schema does not know.
ExtraArgs(sch, args) == DOMAIN args \ DOMAIN sch

\* The schema arguments whose value (or default, when absent) fails normalization.
FailingArgs(sch, args) ==
    {a \in DOMAIN sch :
        \/ a \in DOMAIN args /\ NormalizeRaises(args[a], sch[a], TRUE)
        \/ /\ a \notin DOMAIN args
           /\ CarriesDefault(sch[a])
           /\ sch[a].default # PyNone
           /\ NormalizeRaises(sch[a].default, sch[a], TRUE)}

\* C11: validate names in a 'Missing args' error every schema argument that is
\* absent from handler_args and has neither optional set to true nor a
\* default, and names there no argument that is present in handler_args.
C11_MissingArgsNamed ==
    [][ /\ MissingRequired(schema, handler_args') # {} =>
             /\ pvOutcome' = "return"
             /\ MissingRequired(schema, handler_args') \subseteq NamedIn(errors', "Missing args")
        /\ NamedIn(errors', "Missing args") \cap DOMAIN handler_args' = {} ]_vars

\* C12: validate reports the keys of handler_args unknown to the schema in a
\* 'Found extra params' error in strict mode only; with strict_validation
\* false it reports no such error and still returns its error list.
C12_ExtraParamsInStrictModeOnly ==
    [][ /\ strict' => /\ pvOutcome' = "return"
                      /\ NamedIn(errors', "Found extra params")
                            = ExtraArgs(schema, handler_args')
        /\ ~strict' => /\ pvOutcome' = "return"
                       /\ NamedIn(errors', "Found extra params") = {} ]_vars

\* The number of errors of a kind that name exactly the arguments as.
CountOf(errs, kind, as) ==
    Cardinality({i \in DOMAIN errs : errs[i].kind = kind /\ errs[i].args = as})

\* C13: validate accumulates instead of failing fast and raises nothing: its
\* list holds one 'Schema validation' error per argument that fails
\* normalization, plus one 'Missing args' error when arguments are missing,
\* plus (strict mode) one 'Found extra params' error when there are extra
\* arguments, and nothing else.
C13_ErrorsAccumulate ==
    [][ LET failing == FailingArgs(schema, handler_args')
            missing == MissingRequired(schema, handler_args')
            extra == IF strict' THEN ExtraArgs(schema, handler_args') ELSE {}
        IN /\ pvOutcome' = "return"
           /\ \A a \in failing : CountOf(errors', "Schema validation failed", {a}) = 1
           /\ missing # {} => CountOf(errors', "Missing args", missing) = 1
           /\ extra # {} => CountOf(errors', "Found extra params", extra) = 1
           /\ Len(errors') = Cardinality(failing)
                               + (IF missing # {} THEN 1 ELSE 0)
                               + (IF extra # {} THEN 1 ELSE 0) ]_vars

\* In strict mode the accumulation of C13 is what the code does: a failed
\* normalization, a missing argument and an extra argument reported together.
C13_StrictAccumulated ==
    /\ pvOutcome = "return"
    /\ NamedIn(errors, "Schema validation failed") # {}
    /\ NamedIn(errors, "Missing args") # {}
    /\ NamedIn(errors, "Found extra params") # {}
    /\ Len(errors) = 3

\* C14: a request is answered with status 400 exactly when the validator's
\* error list for its arguments is non-empty; an argument whose normalization
\* fails is named in a 'Schema validation for ... failed' error, and a request
\* whose arguments all validate is processed.
C14_BadRequestIffErrors ==
    [][ response' # "none" =>
          LET failing == FailingArgs(schema, handler_args')
              flawed == failing \cup MissingRequired(schema, handler_args')
                                \cup ExtraArgs(schema, handler_args')
          IN /\ response' = "400" <=> errors' # <<>>
             /\ response' = "400" <=> flawed # {}
             /\ \A a \in failing : SchemaError(a) \in Range(errors')
             /\ flawed = {} => response' = "200" ]_vars

\* C14 witness: a request whose only flaw is an argument failing
\* normalization was answered with 400 and that one error.
C14_Witness ==
    /\ response = "400"
    /\ errors = <<SchemaError("x")>>
    /\ "x" \in DOMAIN handler_args

\* C14 witness of the other branch is the processed request.
C14_Processed ==
    /\ response = "200"
    /\ errors = <<>>
    /\ handler_args # <<>>

\* The filename has no recognized audio extension.
NoRecognizedExtension(filename) ==
    LET units == filename.chars
        dots == {i \in DOMAIN units : units[i] = "."}
    IN \/ dots = {}
       \/ \A i \in dots : i = 1
       \/ \E i \in dots :
            /\ \A j \in dots : j <= i
            /\ SubSeq(units, i + 1, Len(units)) \notin ACCEPTED_AUDIO_EXTENSIONS

\* C15: Voiceover.validate raises a ValidationError whenever the filename has
\* no recognized audio extension: no '.', the last '.' is its first
\* character, or the text after the last '.' is not an accepted extension.
C15_UnrecognizedExtensionRejected ==
    (/\ subject.kind = "Voiceover"
     /\ Validated
     /\ subject.filename.py = "str"
     /\ NoRecognizedExtension(subject.filename))
        => valOutcome.exc = "ValidationError"

\* The voiceover C16 calls valid.
IsValidVoiceover(v) ==
    /\ v.filename.py = "str"
    /\ ~NoRecognizedExtension(v.filename)
    /\ v.file_size_bytes.py = "int" /\ v.file_size_bytes.n > 0
    /\ v.needs_update.py = "bool"
    /\ v.duration_secs.py = "float" /\ v.duration_secs.n >= 0

\* C16: Voiceover.validate raises a ValidationError whenever file_size_bytes
\* is zero or negative and whenever duration_secs is negative, and accepts a
\* voiceover with a valid filename, a positive integer file size, a boolean
\* needs_update and a duration of zero or more.
C16_SizeAndDurationChecked ==
    (subject.kind = "Voiceover" /\ Validated) =>
        /\ (subject.file_size_bytes.py = "int" /\ subject.file_size_bytes.n <= 0)
              => valOutcome.exc = "ValidationError"
        /\ (subject.duration_secs.py = "float" /\ subject.duration_secs.n < 0)
              => valOutcome.exc = "ValidationError"
        /\ IsValidVoiceover(subject) => valOutcome.exc = "none"

\* The code is neither a supported audio language code nor a valid language code.
IsUnknownCode(code) ==
    ~is_supported_audio_language_code(code) /\ ~is_valid_language_code(code)

\* C17: MachineTranslation.validate raises a ValidationError whenever the
\* source language code equals the target language code, also when that code
\* is a supported language.
C17_EqualCodesRejected ==
    (/\ subject.kind = "MachineTranslation"
     /\ Validated
     /\ subject.source_language_code = subject.target_language_code)
        => /\ valOutcome.exc = "ValidationError"
           /\ ~IsUnknownCode(subject.source_language_code)
                 => valOutcome.val = "Expected source_language_code to be different"

\* C17 witness: validate was called with one supported code on both sides.
C17_Witness ==
    /\ subject.kind = "MachineTranslation"
    /\ subject.source_language_code = "en"
    /\ subject.target_language_code = "en"
    /\ valOutcome.exc = "ValidationError"

\* C18 as stated: an unknown source code raises 'Invalid source language
\* code', an unknown target code raises 'Invalid target language code', and
\* two different supported codes raise nothing.
C18_UnknownCodesRejected ==
    (subject.kind = "MachineTranslation" /\ Validated) =>
        /\ IsUnknownCode(subject.source_language_code)
              => valOutcome = Raised("ValidationError", "Invalid source language code")
        /\ IsUnknownCode(subject.target_language_code)
              => valOutcome = Raised("ValidationError", "Invalid target language code")
        /\ (/\ ~IsUnknownCode(subject.source_language_code)
            /\ ~IsUnknownCode(subject.target_language_code)
            /\ subject.source_language_code # subject.target_language_code)
              => valOutcome.exc = "none"

\* C18 amended: an unknown source code raises 'Invalid source language code';
\* an unknown target code raises 'Invalid target language code' when the
\* source code passed its check; two different supported codes raise nothing.
C18_UnknownCodesRejectedSourceFirst ==
    (subject.kind = "MachineTranslation" /\ Validated) =>
        /\ IsUnknownCode(subject.source_language_code)
              => valOutcome = Raised("ValidationError", "Invalid source language code")
        /\ (/\ ~IsUnknownCode(subject.source_language_code)
            /\ IsUnknownCode(subject.target_language_code))
              => valOutcome = Raised("ValidationError", "Invalid target language code")
        /\ (/\ ~IsUnknownCode(subject.source_language_code)
            /\ ~IsUnknownCode(subject.target_language_code)
            /\ subject.source_language_code # subject.target_language_code)
              => valOutcome.exc = "none"

\* C18 witness: a known source code with an unknown target code was rejected
\* for its target.
C18_Witness ==
    /\ subject.kind = "MachineTranslation"
    /\ subject.source_language_code = "en"
    /\ subject.target_language_code = "ABC"
    /\ valOutcome = Raised("ValidationError", "Invalid target language code")

\* The mapping of the container an operation was called on, and the other one.
Called(call, tm, vm) == IF call.cls = "WrittenTranslations" THEN tm ELSE vm
NotCalled(call, tm, vm) == IF call.cls = "WrittenTranslations" THEN vm ELSE tm

\* The content id is a string that is not (is) a key of the mapping d.
IsNewKey(content_id, d) == content_id.py = "str" /\ content_id.v \notin DOMAIN d
IsKey(content_id, d) == content_id.py = "str" /\ content_id.v \in DOMAIN d

\* C19: in both containers, adding a content id that is a string and not yet
\* a key creates that key with an empty language map and leaves every other
\* entry unchanged; adding one that is already a key or is not a string
\* raises and leaves the whole mapping unchanged.
C19_AddContentId ==
    [][ mapCall'.op = "add" =>
          LET before == Called(mapCall', translations_mapping, voiceovers_mapping)
              after == Called(mapCall', translations_mapping', voiceovers_mapping')
              content_id == mapCall'.content_id
          IN /\ IsNewKey(content_id, before) =>
                   /\ mapOutcome'.exc = "none"
                   /\ DOMAIN after = DOMAIN before \cup {content_id.v}
                   /\ after[content_id.v] = EmptyMap
                   /\ \A k \in DOMAIN before : after[k] = before[k]
             /\ ~IsNewKey(content_id, before) =>
                   /\ mapOutcome'.exc = "Exception"
                   /\ after = before
             /\ NotCalled(mapCall', translations_mapping', voiceovers_mapping')
                   = NotCalled(mapCall', translations_mapping, voiceovers_mapping) ]_vars

\* C19 witness: a content id was added next to an entry that holds languages.
C19_Witness ==
    /\ mapCall.op = "add"
    /\ mapOutcome.exc = "none"
    /\ LET d == Called(mapCall, translations_mapping, voiceovers_mapping)
       IN /\ d[mapCall.content_id.v] = EmptyMap
          /\ \E k \in DOMAIN d : d[k] # EmptyMap

\* C19 witness of the rejected case: adding an existing key raised and its
\* languages are still there.
C19_Rejected ==
    /\ mapCall.op = "add"
    /\ mapOutcome = Raised("Exception", "The content_id already exist.")
    /\ Called(mapCall, translations_mapping, voiceovers_mapping)[mapCall.content_id.v]
          # EmptyMap

\* C20: in both containers, deleting a content id that is a key removes that
\* key with all its languages and leaves every other entry unchanged; deleting
\* one that is not a key or is not a string raises and leaves the whole
\* mapping unchanged; after any sequence of adds and deletes the key set
\* equals the ids added and not deleted since.
C20_DeleteContentId ==
    [][ /\ mapCall'.op = "delete" =>
             LET before == Called(mapCall', translations_mapping, voiceovers_mapping)
                 after == Called(mapCall', translations_mapping', voiceovers_mapping')
                 content_id == mapCall'.content_id
             IN /\ IsKey(content_id, before) =>
                      /\ mapOutcome'.exc = "none"
                      /\ DOMAIN after = DOMAIN before \ {content_id.v}
                      /\ \A k \in DOMAIN after : after[k] = before[k]
                /\ ~IsKey(content_id, before) =>
                      /\ mapOutcome'.exc = "Exception"
                      /\ after = before
                /\ NotCalled(mapCall', translations_mapping', voiceovers_mapping')
                      = NotCalled(mapCall', translations_mapping, voiceovers_mapping)
        /\ DOMAIN translations_mapping' = added'["WrittenTranslations"]
        /\ DOMAIN voiceovers_mapping' = added'["RecordedVoiceovers"] ]_vars

\* C20 witness: a content id was deleted, another entry with languages is
\* left, and the keys are the ids added and not deleted.
C20_Witness ==
    /\ mapCall.op = "delete"
    /\ mapOutcome.exc = "none"
    /\ LET d == Called(mapCall, translations_mapping, voiceovers_mapping)
       IN /\ mapCall.content_id.v \notin DOMAIN d
          /\ \E k \in DOMAIN d : d[k] # EmptyMap
          /\ DOMAIN d = added[mapCall.cls]

\* The (content id, language) pairs a mapping stores a record for.
Slots(d) == {<<k, l>> : k \in DOMAIN d, l \in LanguageCodeArgs} \cap
            UNION {{<<k, l>> : l \in DOMAIN d[k]} : k \in DOMAIN d}

\* Mappings d and e have the same content ids and, per content id, the same languages.
SameKeys(d, e) ==
    /\ DOMAIN d = DOMAIN e
    /\ \A k \in DOMAIN d : DOMAIN d[k] = DOMAIN e[k]

\* C21: mark_written_translations_as_needing_update(content_id) sets
\* needs_update for every language stored under the content id and
\* mark_written_translation_as_needing_update(content_id, language_code) for
\* that one language only; neither changes the key sets, a stored translation
\* value, or the flag of any other (content id, language) pair.
C21_MarkNeedsUpdate ==
    [][ mapCall'.op \in {"mark_one", "mark_all"} =>
          LET before == translations_mapping
              after == translations_mapping'
              content_id == mapCall'.content_id
              marked == IF ~HasKey(before, content_id) THEN {}
                        ELSE IF mapCall'.op = "mark_all"
                        THEN {sl \in Slots(before) : sl[1] = content_id.v}
                        ELSE {sl \in Slots(before) : sl[1] = content_id.v
                                                     /\ sl[2] = mapCall'.language_code}
          IN /\ SameKeys(before, after)
             /\ \A sl \in Slots(before) :
                  /\ after[sl[1]][sl[2]].value = before[sl[1]][sl[2]].value
                  /\ after[sl[1]][sl[2]].needs_update =
                        (sl \in marked \/ before[sl[1]][sl[2]].needs_update)
             /\ marked # {} => mapOutcome'.exc = "none"
             /\ voiceovers_mapping' = voiceovers_mapping ]_vars

\* C21 witness: one language of a content id was marked and a language of
\* another content id is still not marked.
C21_Witness ==
    /\ mapCall.op = "mark_one"
    /\ mapCall.language_code = "hi"
    /\ mapOutcome.exc = "none"
    /\ translations_mapping[mapCall.content_id.v]["hi"].needs_update
    /\ \E sl \in Slots(translations_mapping) :
          /\ sl[1] # mapCall.content_id.v
          /\ ~translations_mapping[sl[1]][sl[2]].needs_update

\* The outcome is the error of the key-set check.
IsKeySetError(outcome) ==
    /\ outcome.exc = "ValidationError"
    /\ outcome.val \in {"Expected state written_translations to match",
                        "Expected state recorded_voiceovers to match"}

\* The expected list is given and its set of ids differs from the mapping's keys.
KeySetDiffers(d, expected) ==
    expected.py = "list" /\ DOMAIN d # {expected.items[i] : i \in DOMAIN expected.items}

\* C22: validate of both containers raises a ValidationError whenever the
\* expected content-id list is not None and the set of content ids of the
\* mapping differs from the set of expected ids; with None the key-set check
\* is skipped; order and repetition in the expected list do not matter.
C22_KeySetChecked ==
    mapCall.op = "validate" =>
        (IsKeySetError(mapOutcome) <=>
            KeySetDiffers(Called(mapCall, translations_mapping, voiceovers_mapping),
                          mapCall.expected))

\* C22 witness: a list naming the two content ids of the mapping in
\* another order passed the check.
C22_Witness ==
    /\ mapCall.op = "validate"
    /\ mapCall.expected = PyList(<<"c2", "c1">>)
    /\ mapOutcome.exc = "none"
    /\ DOMAIN Called(mapCall, translations_mapping, voiceovers_mapping) = {"c1", "c2"}

\* C22 witness of the skipped check: validate(None) on a mapping with keys
\* did not raise the key-set error.
C22_NoneSkipsCheck ==
    /\ mapCall.op = "validate"
    /\ mapCall.expected = NoneValue
    /\ Called(mapCall, translations_mapping, voiceovers_mapping) # EmptyMap
    /\ ~IsKeySetError(mapOutcome)

\* The mapping stores for the slot a record that needs an update (is up to date).
IsStale(d, sl) == sl \in Slots(d) /\ d[sl[1]][sl[2]].needs_update
IsFresh(d, sl) == sl \in Slots(d) /\ ~d[sl[1]][sl[2]].needs_update

\* C29: get_content_ids_that_are_correctly_translated(language) returns
\* exactly the content ids with an entry for the language whose needs_update
\* is false; an entry marked as needing update becomes up to date again only
\* by add_translation for its content id and language, and what
\* add_translation stores always has needs_update false.
C29_CorrectlyTranslated ==
    [][ /\ mapCall'.op = "get_correct" =>
             /\ mapOutcome'.exc = "none"
             /\ mapOutcome'.ids =
                   {k \in DOMAIN translations_mapping :
                       IsFresh(translations_mapping, <<k, mapCall'.language_code>>)}
             /\ translations_mapping' = translations_mapping
        /\ \A k \in ContentIds, l \in LanguageCodeArgs :
             (IsStale(translations_mapping, <<k, l>>)
                 /\ IsFresh(translations_mapping', <<k, l>>))
               => /\ mapCall'.op = "add_translation"
                  /\ mapCall'.content_id = PyStr(k)
                  /\ mapCall'.language_code = l
        /\ (mapCall'.op = "add_translation" /\ mapOutcome'.exc = "none") =>
             /\ IsFresh(translations_mapping',
                        <<mapCall'.content_id.v, mapCall'.language_code>>)
             /\ HasKey(translations_mapping, mapCall'.content_id) ]_vars

\* C29 witness: the result for a language leaves out a content id whose entry
\* needs an update and holds one whose entry is up to date.
C29_Witness ==
    /\ mapCall.op = "get_correct"
    /\ mapOutcome.ids # {}
    /\ \E k \in DOMAIN translations_mapping :
          /\ IsStale(translations_mapping, <<k, mapCall.language_code>>)
          /\ k \notin mapOutcome.ids

\* C30: strip_all_existing_voiceovers keeps the set of content ids and leaves
\* every content id with an empty language map, so a validate against an
\* expected list that passed the key-set check before still passes it.
C30_StripKeepsContentIds ==
    [][ mapCall'.op = "strip" =>
          /\ DOMAIN voiceovers_mapping' = DOMAIN voiceovers_mapping
          /\ \A k \in DOMAIN voiceovers_mapping' : voiceovers_mapping'[k] = EmptyMap
          /\ \A e \in ExpectedLists :
               ~IsKeySetError(RecordedVoiceoversValidate(voiceovers_mapping, e))
                 => RecordedVoiceoversValidate(voiceovers_mapping', e) = Returned(PyNone)
          /\ translations_mapping' = translations_mapping ]_vars

\* C30 witness: after a strip the mapping still has its two content ids, both
\* with an empty language map.
C30_Witness ==
    /\ mapCall.op = "strip"
    /\ DOMAIN voiceovers_mapping = {"c1", "c2"}
    /\ \A k \in DOMAIN voiceovers_mapping : voiceovers_mapping[k] = EmptyMap

\* C26: validate is repeatable: it leaves the schema entries as it found
\* them, so a second call with the same handler_args (and mode) ends as the
\* first did, with the same error list.
C26_ValidateRepeatable ==
    [][ /\ schema' = schema
        /\ (pvOutcome # "none" /\ handler_args' = handler_args /\ strict' = strict)
              => (pvOutcome' = pvOutcome /\ errors' = errors) ]_vars

\* The entry lets validate skip its argument when the argument is absent.
IsSkippable(entry) ==
    \/ entry.has_optional /\ entry.optional
    \/ entry.has_default /\ entry.default = PyNone

\* C28: validate skips an argument that is absent from handler_args when its
\* schema entry has optional set to true or a default equal to None: no
\* 'Missing args' error and no 'Schema validation' error names it, and
\* normalize_against_schema is not called for it.
C28_AbsentSkippableArgSkipped ==
    [][ \A a \in DOMAIN schema :
          (a \notin DOMAIN handler_args' /\ IsSkippable(schema[a]))
             => /\ a \notin NamedInAny(errors')
                /\ a \notin normalized' ]_vars

\* C28 witness: a call returned without an error and without normalizing x,
\* which is absent and whose entry has a default of None.
C28_Witness ==
    /\ pvOutcome = "return"
    /\ "x" \in DOMAIN schema
    /\ schema["x"].has_default /\ schema["x"].default = PyNone
    /\ "x" \notin DOMAIN handler_args
    /\ "x" \notin normalized
    /\ errors = <<>>

\* from_dict has been called on the dict of the original.
Rebuilt == rebuilt # [exc |-> "none", val |-> NoObject]

\* C24: TranslatedContent dict conversion is a round trip: from_dict of
\* to_dict succeeds and yields an object with the same content fields and the
\* same needs_update flag.
C24_TranslatedContentRoundTrip ==
    (IsTranslatedContent(original) /\ Rebuilt) =>
        /\ rebuilt.exc = "none"
        /\ rebuilt.val = original

\* C25: TranslatableContent dict conversion is a round trip: from_dict of
\* to_dict yields an object with the same type, value and hash, and to_dict
\* of that object equals the first dict.
C25_TranslatableContentRoundTrip ==
    (IsTranslatableContent(original) /\ Rebuilt) =>
        /\ rebuilt.exc = "none"
        /\ rebuilt.val.type = original.type
        /\ rebuilt.val.value = original.value
        /\ rebuilt.val.hash = original.hash
        /\ TranslatableContentToDict(rebuilt.val) = as_dict
        /\ as_dict = TranslatableContentToDict(original)

\* C25 witness: a content whose value and hash differ went through to_dict
\* and from_dict.
C25_Witness ==
    /\ IsTranslatableContent(original)
    /\ Rebuilt
    /\ original.value = PyStr("a")
    /\ original.hash = "h1"
    /\ rebuilt.val = original

\* The traversal makes only registrations under a content id, two of them
\* under the same one.
RegistersSameContentIdTwice(fs) ==
    /\ \A i \in DOMAIN fs : "content_id" \in DOMAIN fs[i]
    /\ \E i, j \in DOMAIN fs : i # j /\ fs[i].content_id = fs[j].content_id

\* C23: when a traversal registers two translatable fields under the same
\* content id, get_translatable_fields raises the exception 'Already
\* registered as a translatable content.' instead of returning a mapping.
C23_SameContentIdRaises ==
    (lastCall = GTF /\ RegistersSameContentIdTwice(fields["parent"]))
        => gtfOutcome = "Exception: Already registered as a translatable content."

\* The object the last get_translatable_fields call was made on.
CalledObject(call) == IF call = GTF THEN "parent" ELSE "child"

\* C27: the registry is rebuilt from empty on every get_translatable_fields
\* call: the mapping returned is the one a first call returns, whatever was
\* called before (contents never accumulate), and it holds the contents of
\* the object's own traversal only, none of an unrelated object's.
C27_RegistryRebuiltPerCall ==
    [][ (lastCall' \in {GTF, "child.get_translatable_fields"} /\ gtfOutcome' = "return") =>
          LET self == CalledObject(lastCall')
              fresh == [o \in ObjIds |-> EmptyDict]
          IN /\ mapping' = get_translatable_fields(self, fresh).val[self]
             /\ HoldsExactly(mapping', Registered(fields[self]))
             /\ (lastCall = lastCall' /\ gtfOutcome = "return") => mapping' = mapping ]_vars

\* C27 witness: the first object returned its own contents after the second,
\* unrelated object had registered contents of its own.
C27_Witness ==
    /\ lastCall = GTF
    /\ gtfOutcome = "return"
    /\ ~DelegatesToChild(fields["parent"])
    /\ mapping # EmptyDict
    /\ contents["child"] # EmptyDict
    /\ contents["child"] # mapping

====
